---------------------------- MODULE Spec2Model ----------------------------
(***************************************************************************)
(* A model of src/main.py: the task registry (TaskManager), the executor   *)
(* (TaskExecutor.parse_task_description, TaskExecutor.execute) and the     *)
(* POST /tasks request handler (handle_task) with its background thread.   *)
(*                                                                         *)
(* Strings that the code only compares are TLA+ strings.  Paths are        *)
(* sequences of tokens: the token "/" is the path separator and every      *)
(* other token is a non-empty piece of a name, so the empty sequence is    *)
(* the empty string and os.path.dirname can be computed as posixpath does. *)
(* A Python value that may be missing (a dict key, an Optional field) is a *)
(* sequence of length 0 (missing / None) or 1 (present).                   *)
(***************************************************************************)
EXTENDS Integers, Sequences, FiniteSets, TLC

VARIABLES
    api_token,    \* os.getenv("API_TOKEN") is set
    tasks,        \* task_manager.tasks: task id -> record
    minted,       \* the values uuid.uuid4() has returned so far
    pc,           \* per request: the position of handle_task
    task_id,      \* per request: local task_id
    executed,     \* per request: the outcome of executor.execute(task_desc)
    response,     \* per request: the HTTP response
    bg,           \* per request: the background thread
    p_resp,       \* executor specification: the upstream response
    p_parse,      \* executor specification: what parse_task_description did
    p_runs,       \* executor specification: the dispatches of the parsed task
    reg_out,      \* registry specification: the outcome of the last call
    wk            \* weekday specification: the file, the names, the counts

vars == <<api_token, tasks, minted, pc, task_id, executed, response, bg,
          p_resp, p_parse, p_runs, reg_out, wk>>

-----------------------------------------------------------------------------
(* Bounds *)

\* concurrent POST /tasks requests
MaxReqs == 2

\* dispatches of one parsed task in the executor specification
MaxDispatch == 2

Reqs == 1..MaxReqs

\* the values uuid4 can return (hex strings in the code)
UuidPool == <<"u1", "u2", "u3", "u4", "u5", "u6">>

TaskIds == {UuidPool[i] : i \in 1..MaxReqs}

-----------------------------------------------------------------------------
(* Optional values *)

None == <<>>

Some(v) == <<v>>

-----------------------------------------------------------------------------
(* class OperationType(Enum) *)

OperationType ==
    {"run_script", "format_markdown", "count_weekdays", "sort_json",
     "extract_recent_logs", "create_markdown_index", "extract_email_sender",
     "extract_credit_card", "calculate_gold_sales", "find_similar_comments"}

\* execute: handler_map, operation -> bound method
handler_map ==
    [op \in {"format_markdown", "count_weekdays", "sort_json",
             "extract_recent_logs", "create_markdown_index",
             "extract_email_sender", "extract_credit_card",
             "calculate_gold_sales", "find_similar_comments"} |->
        CASE op = "format_markdown"       -> "format_markdown"
          [] op = "count_weekdays"        -> "count_weekdays"
          [] op = "sort_json"             -> "sort_contacts"
          [] op = "extract_recent_logs"   -> "extract_recent_logs"
          [] op = "create_markdown_index" -> "create_markdown_index"
          [] op = "extract_email_sender"  -> "extract_email_sender"
          [] op = "extract_credit_card"   -> "extract_credit_card"
          [] op = "calculate_gold_sales"  -> "calculate_gold_sales"
          [] op = "find_similar_comments" -> "find_similar_comments"]

\* execute: task_data_dirs, operation -> default input path
task_data_dirs ==
    [op \in {"format_markdown", "count_weekdays", "sort_json",
             "extract_recent_logs", "create_markdown_index",
             "extract_email_sender", "extract_credit_card",
             "calculate_gold_sales", "find_similar_comments"} |->
        CASE op = "format_markdown" ->
                <<".", "/", "data", "/", "docs", "/", "agent", "/", "director.md">>
          [] op = "count_weekdays"        -> <<".", "/", "data", "/", "dates">>
          [] op = "sort_json"             -> <<".", "/", "data", "/", "contacts.json">>
          [] op = "extract_recent_logs"   -> <<"/", "data", "/", "logs">>
          [] op = "create_markdown_index" -> <<"/", "data", "/", "docs">>
          [] op = "extract_email_sender"  -> <<"/", "data", "/", "emails">>
          [] op = "extract_credit_card"   -> <<"/", "data", "/", "images">>
          [] op = "calculate_gold_sales"  -> <<"/", "data", "/", "databases">>
          [] op = "find_similar_comments" -> <<"/", "data", "/", "comments">>]

\* RESULTS_DIR = './task_results'
RESULTS_DIR == <<".", "/", "task_results">>

\* the literal "Wednesday" of execute
Wednesday == <<"W", "e", "d", "n", "e", "s", "d", "a", "y">>

-----------------------------------------------------------------------------
(* os.path *)

\* p.rfind('/') + 1: the index of the last separator, 0 when there is none
LastSep(p) ==
    LET S == {i \in 1..Len(p) : p[i] = "/"}
    IN IF S = {} THEN 0 ELSE CHOOSE i \in S : \A j \in S : j <= i

\* head.rstrip('/')
RECURSIVE rstrip(_)
rstrip(p) ==
    IF p # <<>> /\ p[Len(p)] = "/" THEN rstrip(SubSeq(p, 1, Len(p) - 1)) ELSE p

\* posixpath.dirname
dirname(p) ==
    LET head == SubSeq(p, 1, LastSep(p))
    IN IF head # <<>> /\ (\E i \in 1..Len(head) : head[i] # "/")
       THEN rstrip(head)
       ELSE head

\* os.path.join(a, b) for a relative b and an a that does not end in "/"
join(a, b) == a \o <<"/">> \o b

-----------------------------------------------------------------------------
(* str: names are sequences of one-letter strings *)

LowerLetters ==
    <<"a", "b", "c", "d", "e", "f", "g", "h", "i", "j", "k", "l", "m",
      "n", "o", "p", "q", "r", "s", "t", "u", "v", "w", "x", "y", "z">>

UpperLetters ==
    <<"A", "B", "C", "D", "E", "F", "G", "H", "I", "J", "K", "L", "M",
      "N", "O", "P", "Q", "R", "S", "T", "U", "V", "W", "X", "Y", "Z">>

\* the position of letter c in the alphabet letters, 0 when it is not there
LetterIndex(letters, c) ==
    IF \E i \in 1..Len(letters) : letters[i] = c
    THEN CHOOSE i \in 1..Len(letters) : letters[i] = c
    ELSE 0

\* c.lower()
lower(c) ==
    IF LetterIndex(UpperLetters, c) # 0
    THEN LowerLetters[LetterIndex(UpperLetters, c)] ELSE c

\* c.upper()
upper(c) ==
    IF LetterIndex(LowerLetters, c) # 0
    THEN UpperLetters[LetterIndex(LowerLetters, c)] ELSE c

\* a count_weekdays that compares the name as it was given
capitalize_skipped(name) == name

\* str.capitalize(): the first character upper-cased, the rest lower-cased
capitalize(name) ==
    [i \in 1..Len(name) |-> IF i = 1 THEN upper(name[i]) ELSE lower(name[i])]

-----------------------------------------------------------------------------
(* What a call does: it returns a value or raises an exception *)

\* a placeholder for the ParsedTask of a call that raised
NoParsed ==
    [input_files |-> <<>>, operation |-> "", parameters |-> [weekday |-> None],
     output_file |-> <<>>]

\* no exception
NoExc == [type |-> "", msg |-> ""]

Exc(type, msg) == [type |-> type, msg |-> msg]

-----------------------------------------------------------------------------
(* TaskExecutor.parse_task_description                                      *)
(* The upstream response resp is                                            *)
(*   fault: "network"            requests.post raises ConnectionError       *)
(*          "http"               raise_for_status raises HTTPError          *)
(*          "body_not_json"      response.json() raises JSONDecodeError     *)
(*          "no_function_call"   a key of result[...] is missing: KeyError  *)
(*          "arguments_not_json" json.loads(arguments) raises               *)
(*          "none"               arguments is the decoded dict              *)
(*   arguments: the dict, each key optional; parameters is a dict with an   *)
(*          optional weekday and possibly a key TaskParameters lacks        *)

\* TaskParameters(**arguments.get("parameters", {}))
TaskParameters(arguments) ==
    IF arguments.parameters = None
    THEN [weekday |-> None]
    ELSE [weekday |-> arguments.parameters[1].weekday]

\* the ParsedTask(...) construction of a payload that has every required key
MakeParsedTask(arguments) ==
    [input_files |-> IF arguments.input_files = None THEN <<>>
                     ELSE arguments.input_files[1],
     operation   |-> arguments.operation[1],
     parameters  |-> TaskParameters(arguments),
     output_file |-> arguments.output_file[1]]

\* a parse that does not look the operation up in the enumeration
NotInEnumeration_skipped(arguments) == FALSE

\* OperationType(arguments["operation"]) raises ValueError
NotInEnumeration(arguments) == arguments.operation[1] \notin OperationType

\* the try block of parse_task_description and its two except clauses
parse_task_description(resp) ==
    IF resp.fault = "network"
    THEN [raised |-> TRUE, exc |-> Exc("ConnectionError", "connection failed"),
          parsed |-> NoParsed]
    ELSE IF resp.fault = "http"
    THEN [raised |-> TRUE, exc |-> Exc("RuntimeError", "AI Proxy error"),
          parsed |-> NoParsed]
    ELSE IF resp.fault \in {"body_not_json", "arguments_not_json"}
    THEN [raised |-> TRUE, exc |-> Exc("JSONDecodeError", "not JSON"),
          parsed |-> NoParsed]
    ELSE IF resp.fault = "no_function_call"
    THEN [raised |-> TRUE, exc |-> Exc("RuntimeError", "Malformed API response"),
          parsed |-> NoParsed]
    ELSE IF resp.arguments.operation = None
    THEN [raised |-> TRUE, exc |-> Exc("RuntimeError", "Malformed API response"),
          parsed |-> NoParsed]
    ELSE IF NotInEnumeration(resp.arguments)
    THEN [raised |-> TRUE, exc |-> Exc("ValueError", "not a valid OperationType"),
          parsed |-> NoParsed]
    ELSE IF resp.arguments.parameters # None
            /\ resp.arguments.parameters[1].unexpected
    THEN [raised |-> TRUE, exc |-> Exc("TypeError", "unexpected keyword argument"),
          parsed |-> NoParsed]
    ELSE IF resp.arguments.output_file = None
    THEN [raised |-> TRUE, exc |-> Exc("RuntimeError", "Malformed API response"),
          parsed |-> NoParsed]
    ELSE [raised |-> FALSE, exc |-> NoExc,
          parsed |-> MakeParsedTask(resp.arguments)]

-----------------------------------------------------------------------------
(* TaskExecutor.execute after the parse: the dispatch                        *)
(* hres is what the handler does when it is invoked: "ok" or "raise"         *)

\* a placeholder for the arguments of a handler that was not invoked
NoCall == <<>>

\* a resolution that takes the last input file instead of the first
ResolveInputPath_last(parsed) ==
    IF parsed.input_files # <<>>
    THEN parsed.input_files[Len(parsed.input_files)]
    ELSE IF parsed.operation \in DOMAIN task_data_dirs
         THEN task_data_dirs[parsed.operation]
         ELSE <<>>

\* input_path = parsed.input_files[0] if parsed.input_files else
\*              task_data_dirs.get(parsed.operation, "")
ResolveInputPath(parsed) ==
    IF parsed.input_files # <<>>
    THEN parsed.input_files[1]
    ELSE IF parsed.operation \in DOMAIN task_data_dirs
         THEN task_data_dirs[parsed.operation]
         ELSE <<>>

\* parsed.parameters.weekday or "Wednesday"
WeekdayArg(parsed) ==
    IF parsed.parameters.weekday = None \/ parsed.parameters.weekday[1] = <<>>
    THEN Wednesday
    ELSE parsed.parameters.weekday[1]

\* an invocation that hands every handler the resolved path itself
HandlerPath_unreduced(parsed, input_path) == input_path

\* the path the handler is invoked with: the if / elif / else of the invocation
HandlerPath(parsed, input_path) ==
    IF parsed.operation \in {"extract_recent_logs", "create_markdown_index"}
    THEN dirname(input_path)
    ELSE input_path

\* the handler invocation: the bound method and its positional arguments
HandlerCall(parsed, input_path, hres) ==
    [handler     |-> handler_map[parsed.operation],
     path        |-> HandlerPath(parsed, input_path),
     weekday     |-> IF parsed.operation = "count_weekdays"
                     THEN Some(WeekdayArg(parsed)) ELSE None,
     output_file |-> parsed.output_file,
     result      |-> hres]

\* if not input_path: raise ValueError
NoValidInputPath(input_path) == input_path = <<>>

\* execute from handler_map on, for a parsed task
dispatch(parsed, hres) ==
    IF parsed.operation \notin DOMAIN handler_map
    THEN [raised |-> TRUE, exc |-> Exc("ValueError", "Unsupported operation"),
          resolved |-> None, call |-> NoCall]
    ELSE LET input_path == ResolveInputPath(parsed)
         IN IF NoValidInputPath(input_path)
            THEN [raised |-> TRUE,
                  exc |-> Exc("ValueError", "No valid input path found"),
                  resolved |-> Some(input_path), call |-> NoCall]
            ELSE [raised |-> hres = "raise",
                  exc |-> IF hres = "raise"
                          THEN Exc("OperationError", "handler failed") ELSE NoExc,
                  resolved |-> Some(input_path),
                  call |-> Some(HandlerCall(parsed, input_path, hres))]

\* TaskExecutor.execute(task_description): parse, then dispatch and invoke
execute(resp, hres) ==
    LET pr == parse_task_description(resp)
    IN IF pr.raised
       THEN [raised |-> TRUE, exc |-> pr.exc, parsed |-> None,
             resolved |-> None, call |-> NoCall]
       ELSE LET d == dispatch(pr.parsed, hres)
            IN [raised |-> d.raised, exc |-> d.exc, parsed |-> Some(pr.parsed),
                resolved |-> d.resolved, call |-> d.call]

\* execute has not run
NotExecuted ==
    [raised |-> FALSE, exc |-> NoExc, parsed |-> None, resolved |-> None,
     call |-> NoCall]

-----------------------------------------------------------------------------
(* class TaskManager: the registry is the dict self.tasks *)

\* a create that rebuilds the dict from the new entry alone
create_task_replaces(t, id, output_path) ==
    [k \in {id} |->
        [status |-> "pending", output_path |-> output_path, error |-> None]]

\* TaskManager.create_task: self.tasks[task_id] = {...}
create_task(t, id, output_path) ==
    [k \in DOMAIN t \cup {id} |->
        IF k = id
        THEN [status |-> "pending", output_path |-> output_path, error |-> None]
        ELSE t[k]]

\* a status store that is never made
update_task_status_dropped(t, id, status) == t

\* a status store that lands on every record of the dict
update_task_status_all(t, id, status) ==
    IF id \in DOMAIN t
    THEN [k \in DOMAIN t |-> [t[k] EXCEPT !.status = status]]
    ELSE t

\* update_task, its first store:
\* if task_id in self.tasks: self.tasks[task_id]['status'] = status
update_task_status(t, id, status) ==
    IF id \in DOMAIN t THEN [t EXCEPT ![id].status = status] ELSE t

\* update_task, its second store: self.tasks[task_id]['error'] = error
update_task_error(t, id, error) ==
    IF id \in DOMAIN t THEN [t EXCEPT ![id].error = error] ELSE t

\* TaskManager.update_task run to its end: both stores
update_task(t, id, status, error) ==
    update_task_error(update_task_status(t, id, status), id, error)

\* TaskManager.get_task: self.tasks.get(task_id, None)
get_task(t, id) == IF id \in DOMAIN t THEN Some(t[id]) ELSE None

-----------------------------------------------------------------------------
(* The upstream responses and handler results the specifications draw from *)

Faults ==
    {"network", "http", "body_not_json", "no_function_call", "arguments_not_json"}

\* the arguments of a response that carries none
NoArguments ==
    [input_files |-> None, operation |-> None, parameters |-> None,
     output_file |-> None]

\* every response with a fault, and every response whose arguments take the
\* operation from Ops, the input_files from Ins, the parameters from Params
\* and the output_file from Outs
UpstreamResponses(Ops, Ins, Params, Outs) ==
    {[fault |-> f, arguments |-> NoArguments] : f \in Faults}
    \cup
    {[fault |-> "none",
      arguments |-> [input_files |-> i, operation |-> o, parameters |-> p,
                     output_file |-> u]] :
        o \in Ops, i \in Ins, p \in Params, u \in Outs}

HandlerResults == {"ok", "raise"}

\* the responses of the request specification
MainResponses ==
    {r \in UpstreamResponses(
        {None, Some("run_script"), Some("sort_json"), Some("extract_recent_logs")},
        {None, Some(<< <<>> >>), Some(<< <<"app.log">> >>),
         Some(<< <<"/", "data", "/", "logs", "/", "app.log">> >>)},
        {None},
        {None, Some(<<"out.txt">>)}) :
        r.fault \in {"none", "network", "http"}}

\* the responses of the executor specification
ExecutorResponses ==
    UpstreamResponses(
        {None, Some("delete_all")} \cup {Some(o) : o \in OperationType},
        {None, Some(<<>>), Some(<< <<>> >>), Some(<< <<"app.log">> >>),
         Some(<< <<"/", "app.log">> >>),
         Some(<< <<"logs", "/", "app.log">> >>),
         Some(<< <<"/", "data", "/", "logs", "/">> >>),
         Some(<< <<"/", "data", "/", "a.md">>, <<"b.md">> >>),
         Some(<< <<>>, <<"b.md">> >>)},
        {None, Some([weekday |-> None, unexpected |-> FALSE]),
         Some([weekday |-> Some(<<"m", "o", "n", "d", "a", "y">>),
               unexpected |-> FALSE]),
         Some([weekday |-> Some(<<>>), unexpected |-> FALSE]),
         Some([weekday |-> None, unexpected |-> TRUE])},
        {None, Some(<<>>), Some(<<"out.txt">>),
         Some(<<"/", "data", "/", "out.txt">>)})

-----------------------------------------------------------------------------
(* POST /tasks: handle_task, one request r of the threaded server            *)

NoResponse == [status |-> 0, task_id |-> None, error |-> None]

\* the thread of a request that started none
NoThread == [state |-> "none", call |-> NoCall, exc |-> NoExc]

\* uuid.uuid4(): a value it has not returned before
uuid4 == TaskIds \ minted

\* output_path = os.path.join(RESULTS_DIR, f"{task_id}.out")
OutputPath(id) == join(RESULTS_DIR, <<id, ".out">>)

\* executor.execute_parsed(parsed, user_email): TaskExecutor has no such
\* method, so the attribute lookup raises and no handler is invoked
execute_parsed ==
    [raised |-> TRUE,
     exc |-> Exc("AttributeError", "no attribute 'execute_parsed'"),
     call |-> NoCall]

\* data = request.get_json(); task_desc = data.get('task_description');
\* task_id = str(uuid.uuid4()); executor = TaskExecutor()
\* body: "malformed" (get_json aborts with 400), "array" (data.get raises
\* AttributeError), "object"
handle_task_begin(r, body) ==
    /\ pc[r] = "begin"
    /\ UNCHANGED <<api_token, tasks, executed, bg, reg_out, wk,
                   p_resp, p_parse, p_runs>>
    /\ IF body = "malformed"
       THEN /\ pc' = [pc EXCEPT ![r] = "done"]
            /\ response' = [response EXCEPT ![r] =
                  [status |-> 400, task_id |-> None, error |-> Some("Bad Request")]]
            /\ UNCHANGED <<minted, task_id>>
       ELSE IF body = "array"
       THEN /\ pc' = [pc EXCEPT ![r] = "done"]
            /\ response' = [response EXCEPT ![r] =
                  [status |-> 500, task_id |-> None, error |-> Some("AttributeError")]]
            /\ UNCHANGED <<minted, task_id>>
       ELSE \E id \in uuid4 :
            /\ minted' = minted \cup {id}
            /\ task_id' = [task_id EXCEPT ![r] = Some(id)]
            /\ IF api_token
               THEN /\ pc' = [pc EXCEPT ![r] = "execute"]
                    /\ UNCHANGED response
               ELSE /\ pc' = [pc EXCEPT ![r] = "done"]
                    /\ response' = [response EXCEPT ![r] =
                          [status |-> 500, task_id |-> None,
                           error |-> Some("ValueError")]]

\* a handler that registers the task before the try block
handle_task_execute_registers_first(r, resp, hres) ==
    /\ pc[r] = "execute"
    /\ tasks' = create_task(tasks, task_id[r][1], OutputPath(task_id[r][1]))
    /\ LET out == execute(resp, hres)
       IN /\ executed' = [executed EXCEPT ![r] = out]
          /\ IF out.raised
             THEN /\ pc' = [pc EXCEPT ![r] = "done"]
                  /\ response' = [response EXCEPT ![r] =
                        [status |-> 400, task_id |-> None,
                         error |-> Some(out.exc.msg)]]
             ELSE /\ pc' = [pc EXCEPT ![r] = "create"]
                  /\ UNCHANGED response
    /\ UNCHANGED <<api_token, minted, task_id, bg, reg_out, wk,
                   p_resp, p_parse, p_runs>>

\* try: executor.execute(task_desc)
\* except Exception as e: return jsonify({"error": str(e)}), 400
handle_task_execute(r, resp, hres) ==
    /\ pc[r] = "execute"
    /\ LET out == execute(resp, hres)
       IN /\ executed' = [executed EXCEPT ![r] = out]
          /\ IF out.raised
             THEN /\ pc' = [pc EXCEPT ![r] = "done"]
                  /\ response' = [response EXCEPT ![r] =
                        [status |-> 400, task_id |-> None,
                         error |-> Some(out.exc.msg)]]
             ELSE /\ pc' = [pc EXCEPT ![r] = "create"]
                  /\ UNCHANGED response
    /\ UNCHANGED <<api_token, tasks, minted, task_id, bg, reg_out, wk,
                   p_resp, p_parse, p_runs>>

\* task_manager.create_task(task_id, output_path)
handle_task_create(r) ==
    /\ pc[r] = "create"
    /\ tasks' = create_task(tasks, task_id[r][1], OutputPath(task_id[r][1]))
    /\ pc' = [pc EXCEPT ![r] = "start"]
    /\ UNCHANGED <<api_token, minted, task_id, executed, response, bg,
                   reg_out, wk, p_resp, p_parse, p_runs>>

\* threading.Thread(target=background_task).start()
\* return jsonify({"task_id": task_id}), 202
handle_task_start(r) ==
    /\ pc[r] = "start"
    /\ bg' = [bg EXCEPT ![r].state = "running"]
    /\ response' = [response EXCEPT ![r] =
          [status |-> 202, task_id |-> task_id[r], error |-> None]]
    /\ pc' = [pc EXCEPT ![r] = "done"]
    /\ UNCHANGED <<api_token, tasks, minted, task_id, executed,
                   reg_out, wk, p_resp, p_parse, p_runs>>

\* background_task: try: execute_parsed; update_task(task_id, 'completed')
\* except Exception as e: update_task(task_id, 'error', str(e))
\* up to the first store of update_task; another thread may run before the
\* second store
background_task(r) ==
    /\ bg[r].state = "running"
    /\ LET out == execute_parsed
       IN /\ bg' = [bg EXCEPT ![r] =
                [state |-> "updating", call |-> out.call, exc |-> out.exc]]
          /\ tasks' = update_task_status(tasks, task_id[r][1],
                          IF out.raised THEN "error" ELSE "completed")
    /\ UNCHANGED <<api_token, minted, pc, task_id, executed, response,
                   reg_out, wk, p_resp, p_parse, p_runs>>

\* background_task: the second store of its update_task call, and the end of
\* the thread
background_task_update(r) ==
    /\ bg[r].state = "updating"
    /\ bg' = [bg EXCEPT ![r].state = "done"]
    /\ tasks' = update_task_error(tasks, task_id[r][1],
                    IF bg[r].exc # NoExc THEN Some(bg[r].exc.msg) ELSE None)
    /\ UNCHANGED <<api_token, minted, pc, task_id, executed, response,
                   reg_out, wk, p_resp, p_parse, p_runs>>

-----------------------------------------------------------------------------
(* The request specification: MaxReqs concurrent POST /tasks requests *)

\* no TaskManager call yet
NoRegistryCall ==
    [call |-> "", known |-> FALSE, raised |-> FALSE, changed |-> FALSE]

\* the weekday specification has not started
NoWeekdays == [file |-> <<>>, supplied |-> <<>>, calls |-> <<>>]

InitCommon ==
    /\ tasks = <<>>
    /\ minted = {}
    /\ pc = [r \in Reqs |-> "begin"]
    /\ task_id = [r \in Reqs |-> None]
    /\ executed = [r \in Reqs |-> NotExecuted]
    /\ response = [r \in Reqs |-> NoResponse]
    /\ bg = [r \in Reqs |-> NoThread]
    /\ p_parse = None
    /\ p_runs = <<>>
    /\ reg_out = NoRegistryCall

Init ==
    /\ InitCommon
    /\ wk = NoWeekdays
    /\ api_token \in BOOLEAN
    /\ p_resp = [fault |-> "none", arguments |-> NoArguments]

Next ==
    \E r \in Reqs :
        \/ \E body \in {"malformed", "array", "object"} : handle_task_begin(r, body)
        \/ \E resp \in MainResponses, hres \in HandlerResults :
              handle_task_execute(r, resp, hres)
        \/ handle_task_create(r)
        \/ handle_task_start(r)
        \/ background_task(r)
        \/ background_task_update(r)

Spec == Init /\ [][Next]_vars

\* the responses of the fair request specification: those of the request
\* specification that name no input file
LiveResponses == {r \in MainResponses : r.arguments.input_files = None}

NextLive ==
    \E r \in Reqs :
        \/ \E body \in {"malformed", "array", "object"} : handle_task_begin(r, body)
        \/ \E resp \in LiveResponses, hres \in HandlerResults :
              handle_task_execute(r, resp, hres)
        \/ handle_task_create(r)
        \/ handle_task_start(r)
        \/ background_task(r)
        \/ background_task_update(r)

\* the request specification with the scheduling the server gives: a request
\* thread that can take its next step takes it, and a started background
\* thread is run to its end
SpecLive ==
    /\ Init
    /\ [][NextLive]_vars
    /\ \A r \in Reqs :
          /\ WF_vars(handle_task_create(r))
          /\ WF_vars(handle_task_start(r))
          /\ WF_vars(background_task(r))
          /\ WF_vars(background_task_update(r))

-----------------------------------------------------------------------------
(* The executor specification: one upstream response, parsed once, and the  *)
(* parsed task dispatched up to MaxDispatch times                           *)

executor_parse ==
    /\ p_parse = None
    /\ p_parse' = Some(parse_task_description(p_resp))
    /\ UNCHANGED <<api_token, tasks, minted, pc, task_id, executed, response, bg,
                   reg_out, wk, p_resp, p_runs>>

executor_dispatch(hres) ==
    /\ p_parse # None
    /\ ~p_parse[1].raised
    /\ Len(p_runs) < MaxDispatch
    /\ p_runs' = Append(p_runs, dispatch(p_parse[1].parsed, hres))
    /\ UNCHANGED <<api_token, tasks, minted, pc, task_id, executed, response, bg,
                   reg_out, wk, p_resp, p_parse>>

InitExecutor ==
    /\ InitCommon
    /\ wk = NoWeekdays
    /\ api_token = TRUE
    /\ p_resp \in ExecutorResponses

NextExecutor ==
    \/ executor_parse
    \/ \E hres \in HandlerResults : executor_dispatch(hres)

SpecExecutor == InitExecutor /\ [][NextExecutor]_vars

-----------------------------------------------------------------------------
(* The weekday specification: TaskExecutor.count_weekdays applied, as execute *)
(* applies it, to one date file for two values of parameters.weekday.  A    *)
(* line of the file is the name date.strftime('%A') gives for its date, or  *)
(* None when no format of the handler parses it.                            *)

\* lines of the date file
MaxLines == 2

Monday == <<"M", "o", "n", "d", "a", "y">>

DateLines == {None, Some(Monday), Some(Wednesday)}

DateFiles == UNION {[1..n -> DateLines] : n \in 0..MaxLines}

\* the values of parameters.weekday
SuppliedWeekdays ==
    {None, Some(<<>>), Some(Monday),
     Some(<<"m", "o", "n", "d", "a", "y">>),
     Some(<<"M", "O", "N", "D", "A", "Y">>),
     Some(<<"w", "e", "d", "n", "e", "s", "d", "a", "y">>)}

\* count_weekdays: the number str(count) written to the output file
count_weekdays(file, weekday) ==
    Cardinality({i \in 1..Len(file) :
                    file[i] # None /\ file[i][1] = capitalize(weekday)})

\* execute for a count_weekdays task whose parameters.weekday is supplied
weekday_count ==
    /\ Len(wk.calls) < Len(wk.supplied)
    /\ LET parsed == [NoParsed EXCEPT
                         !.operation = "count_weekdays",
                         !.parameters = [weekday |->
                                            wk.supplied[Len(wk.calls) + 1]]]
           arg == WeekdayArg(parsed)
       IN wk' = [wk EXCEPT !.calls =
                    Append(@, [weekday |-> arg,
                               count |-> count_weekdays(wk.file, arg)])]
    /\ UNCHANGED <<api_token, tasks, minted, pc, task_id, executed, response, bg,
                   reg_out, p_resp, p_parse, p_runs>>

InitWeekdays ==
    /\ InitCommon
    /\ api_token = TRUE
    /\ p_resp = [fault |-> "none", arguments |-> NoArguments]
    /\ wk \in {[file |-> f, supplied |-> <<a, b>>, calls |-> <<>>] :
                  f \in DateFiles, a \in SuppliedWeekdays, b \in SuppliedWeekdays}

NextWeekdays == weekday_count

SpecWeekdays == InitWeekdays /\ [][NextWeekdays]_vars

-----------------------------------------------------------------------------
(* The registry specification: any sequence of TaskManager calls *)

Statuses == {"pending", "completed", "error"}

\* update_task has no raise statement and returns None for every task id
update_task_raises(t, id) == FALSE

\* create_task with a task id no record has yet, as handle_task calls it
registry_create(id, output_path) ==
    /\ id \notin DOMAIN tasks
    /\ tasks' = create_task(tasks, id, output_path)
    /\ reg_out' = [call |-> "create_task", known |-> FALSE, raised |-> FALSE,
                   changed |-> TRUE]
    /\ UNCHANGED <<api_token, minted, pc, task_id, executed, response, bg,
                   wk, p_resp, p_parse, p_runs>>

registry_update(id, status, error) ==
    /\ tasks' = update_task(tasks, id, status, error)
    /\ reg_out' = [call |-> "update_task", known |-> id \in DOMAIN tasks,
                   raised |-> update_task_raises(tasks, id),
                   changed |-> update_task(tasks, id, status, error) # tasks]
    /\ UNCHANGED <<api_token, minted, pc, task_id, executed, response, bg,
                   wk, p_resp, p_parse, p_runs>>

NextRegistry ==
    \/ \E id \in TaskIds :
          \E output_path \in {OutputPath(id), <<"out.txt">>} :
              registry_create(id, output_path)
    \/ \E id \in TaskIds, status \in Statuses, error \in {None, Some("failed")} :
          registry_update(id, status, error)

SpecRegistry == Init /\ [][NextRegistry]_vars

-----------------------------------------------------------------------------
(* Properties *)

Terminal == {"completed", "error"}

\* the request was accepted: its record was created
Accepted(r) == pc[r] = "start" \/ response[r].status = 202

\* execute raised before it invoked a handler: parse or dispatch failed
ValidationFailed(r) == executed[r].raised /\ executed[r].call = NoCall

\* the handler was invoked on the request path of r
SyncInvoked(r) == executed[r].call # NoCall

\* the step is a call of update_task
UpdateStep ==
    \E id \in TaskIds, status \in Statuses, error \in {None, Some("failed")} :
        tasks' = update_task(tasks, id, status, error)

\* C1: an update applied to a record that is already completed or error leaves
\* the record's status and error unchanged (registry specification).
C1_TerminalNeverOverwritten ==
    [][UpdateStep =>
          \A id \in DOMAIN tasks :
              tasks[id].status \in Terminal =>
                  /\ id \in DOMAIN tasks'
                  /\ tasks'[id].status = tasks[id].status
                  /\ tasks'[id].error = tasks[id].error]_vars

\* C2: once the background unit of an accepted task has finished, it has invoked
\* the handler, the record is completed when the invocation returned normally
\* and error with a message when it raised, and a task whose handler has only
\* succeeded is not recorded as error.
C2_BackgroundOutcomeRecorded ==
    \A r \in Reqs :
        bg[r].state = "done" =>
            /\ bg[r].call # NoCall
            /\ bg[r].call # NoCall /\ bg[r].call[1].result = "ok" =>
                  tasks[task_id[r][1]].status = "completed"
            /\ bg[r].call # NoCall /\ bg[r].call[1].result = "raise" =>
                  /\ tasks[task_id[r][1]].status = "error"
                  /\ tasks[task_id[r][1]].error # None
            /\ (SyncInvoked(r) /\ executed[r].call[1].result = "ok"
                    /\ (bg[r].call = NoCall \/ bg[r].call[1].result = "ok")) =>
                  tasks[task_id[r][1]].status # "error"

\* C3: a request whose parse or dispatch failed is answered 400 with an error
\* message, has inserted no record under its task id and has started no
\* background unit.
C3_ValidationFailureLeavesRegistry ==
    \A r \in Reqs :
        /\ ValidationFailed(r) =>
              /\ response[r].status = 400
              /\ response[r].error # None
        /\ response[r].status = 400 =>
              /\ bg[r].state = "none"
              /\ task_id[r] # None => task_id[r][1] \notin DOMAIN tasks

C3_Witness ==
    \E r \in Reqs :
        /\ ValidationFailed(r)
        /\ response[r].status = 400
        /\ task_id[r] # None
        /\ tasks # <<>>

\* C4: the handler is never invoked on the synchronous request path; an
\* invocation belongs to a background unit whose pending record exists.
C4_NoHandlerOnRequestPath ==
    \A r \in Reqs :
        /\ ~SyncInvoked(r)
        /\ bg[r].call # NoCall => task_id[r][1] \in DOMAIN tasks

\* C5: a request whose handler raised is still answered 202 with its task id,
\* and the failure is recorded as status error with a message on its record.
C5_HandlerFailureIsAsynchronous ==
    \A r \in Reqs :
        (/\ pc[r] = "done"
         /\ \/ SyncInvoked(r) /\ executed[r].call[1].result = "raise"
            \/ bg[r].call # NoCall /\ bg[r].call[1].result = "raise") =>
            /\ response[r].status = 202
            /\ response[r].task_id = task_id[r]
            /\ bg[r].state = "done" =>
                  /\ tasks[task_id[r][1]].status = "error"
                  /\ tasks[task_id[r][1]].error # None

\* C6: the task ids of the accepted requests are pairwise distinct, and the
\* registry holds exactly one record for each of them, pending until the
\* task's own background unit updates it.
C6_DistinctIdsNoLostEntry ==
    /\ \A r1, r2 \in Reqs :
          Accepted(r1) /\ Accepted(r2) /\ r1 # r2 => task_id[r1] # task_id[r2]
    /\ \A r \in Reqs :
          Accepted(r) =>
              /\ task_id[r][1] \in DOMAIN tasks
              /\ tasks[task_id[r][1]].output_path = OutputPath(task_id[r][1])
              /\ bg[r].state \in {"none", "running"} =>
                    /\ tasks[task_id[r][1]].status = "pending"
                    /\ tasks[task_id[r][1]].error = None
    /\ Cardinality(DOMAIN tasks) = Cardinality({r \in Reqs : Accepted(r)})

C6_Witness ==
    /\ \A r \in Reqs : Accepted(r) /\ bg[r].state \in {"none", "running"}
    /\ Cardinality(DOMAIN tasks) = MaxReqs

\* C7: a ParsedTask that parse returns carries an operation of the
\* enumeration (executor specification).
C7_ParsedOperationInEnumeration ==
    (p_parse # None /\ ~p_parse[1].raised) =>
        p_parse[1].parsed.operation \in OperationType

C7_Witness ==
    /\ p_parse # None
    /\ ~p_parse[1].raised
    /\ p_parse[1].parsed.operation = "sort_json"
    /\ p_parse[1].parsed.input_files # <<>>

\* C8: every failure of parse is a translated error: the upstream-failure kind
\* when the call failed (network or HTTP fault), the malformed-payload kind
\* otherwise; no other exception escapes (executor specification).
C8_ParseFailuresAreTranslated ==
    (p_parse # None /\ p_parse[1].raised) =>
        IF p_resp.fault \in {"network", "http"}
        THEN p_parse[1].exc = Exc("RuntimeError", "AI Proxy error")
        ELSE p_parse[1].exc = Exc("RuntimeError", "Malformed API response")

\* C9: for a parsed task whose operation has a handler, every dispatch resolves
\* the first input file when there is one and otherwise the operation's
\* default path, which is not empty, and all dispatches of the task resolve
\* the same path (executor specification).
C9_InputPathResolution ==
    \A i \in 1..Len(p_runs) :
        LET parsed == p_parse[1].parsed
        IN parsed.operation \in DOMAIN handler_map =>
            /\ p_runs[i].resolved # None
            /\ parsed.input_files # <<>> =>
                  p_runs[i].resolved[1] = parsed.input_files[1]
            /\ parsed.input_files = <<>> =>
                  /\ p_runs[i].resolved[1] = task_data_dirs[parsed.operation]
                  /\ p_runs[i].resolved[1] # <<>>
            /\ \A j \in 1..Len(p_runs) : p_runs[j].resolved = p_runs[i].resolved

C9_Witness ==
    /\ Len(p_runs) = MaxDispatch
    /\ p_parse[1].parsed.input_files = <<>>
    /\ p_parse[1].parsed.operation = "create_markdown_index"
    /\ p_runs[1].resolved = Some(<<"/", "data", "/", "docs">>)

\* C10: no handler is invoked with an empty input path, not even after the
\* reduction to the containing directory, and no background unit exists for a
\* request whose path resolved to the empty string.
C10_NoEmptyPathInvocation ==
    \A r \in Reqs :
        /\ SyncInvoked(r) => executed[r].call[1].path # <<>>
        /\ bg[r].call # NoCall => bg[r].call[1].path # <<>>
        /\ executed[r].resolved = Some(<<>>) => bg[r].state = "none"

\* C11: an update with a task id that is not in the registry raises (reports a
\* fault to its caller) and leaves the registry unchanged (registry
\* specification).
C11_UnknownIdIsReported ==
    (reg_out.call = "update_task" /\ ~reg_out.known) =>
        /\ reg_out.raised
        /\ ~reg_out.changed

\* C12: every operation that parse returned (a member of the enumeration) is a
\* key of the handler table and of the default-path table, and its dispatch
\* does not fail as an unsupported operation (executor specification).
C12_TablesCoverEnumeration ==
    \A i \in 1..Len(p_runs) :
        p_parse[1].parsed.operation \in OperationType =>
            /\ p_parse[1].parsed.operation \in DOMAIN handler_map
            /\ p_parse[1].parsed.operation \in DOMAIN task_data_dirs
            /\ p_runs[i].exc # Exc("ValueError", "Unsupported operation")

\* the name with every letter lower-cased
Lowered(name) == [i \in 1..Len(name) |-> lower(name[i])]

\* both values of parameters.weekday are names that differ in letter case only
SameWeekdayName(a, b) == a # None /\ b # None /\ Lowered(a[1]) = Lowered(b[1])

\* the counts of two calls agree when their names differ in letter case only
CaseVariantsCountAlike ==
    \A i, j \in 1..Len(wk.calls) :
        SameWeekdayName(wk.supplied[i], wk.supplied[j]) =>
            wk.calls[i].count = wk.calls[j].count

\* C13 as stated: the handler gets "Wednesday" when parameters.weekday is absent
\* and the supplied weekday otherwise, and the count is the same for every
\* letter-case variant of a name (weekday specification).
C13_Original ==
    /\ \A i \in 1..Len(wk.calls) :
          wk.calls[i].weekday =
              IF wk.supplied[i] = None THEN Wednesday ELSE wk.supplied[i][1]
    /\ CaseVariantsCountAlike

\* C13 amended: the handler gets "Wednesday" when parameters.weekday is absent
\* or the empty string and the supplied weekday otherwise, and the count is the
\* same for every letter-case variant of a name (weekday specification).
C13_WeekdayDefaultAndCase ==
    /\ \A i \in 1..Len(wk.calls) :
          wk.calls[i].weekday =
              IF wk.supplied[i] = None \/ wk.supplied[i] = Some(<<>>)
              THEN Wednesday ELSE wk.supplied[i][1]
    /\ CaseVariantsCountAlike

C13_Witness ==
    /\ Len(wk.calls) = 2
    /\ wk.supplied = <<Some(<<"m", "o", "n", "d", "a", "y">>),
                       Some(<<"M", "O", "N", "D", "A", "Y">>)>>
    /\ wk.file = <<Some(Monday), Some(Wednesday)>>
    /\ wk.calls[1].count = 1
    /\ wk.calls[2].count = 1

\* C14: every finished request was answered 202 or 400, and every fault raised
\* in a background unit is recorded as status error on that unit's record.
C14_NoFaultEscapes ==
    \A r \in Reqs :
        /\ pc[r] = "done" => response[r].status \in {202, 400}
        /\ (bg[r].state = "done" /\ bg[r].exc # NoExc) =>
              tasks[task_id[r][1]].status = "error"

\* the record of request r exists and is pending with no error
RecordPending(r) ==
    /\ task_id[r] # None
    /\ task_id[r][1] \in DOMAIN tasks
    /\ tasks[task_id[r][1]].status = "pending"
    /\ tasks[task_id[r][1]].error = None

\* the record of request r is terminal, set by the background unit of r
RecordTerminal(r) ==
    /\ task_id[r] # None
    /\ task_id[r][1] \in DOMAIN tasks
    /\ tasks[task_id[r][1]].status \in Terminal
    /\ bg[r].state \in {"updating", "done"}

\* C15: a record is pending when it has just been created, it is terminal only
\* once its own background unit has set it, and every created record
\* eventually becomes terminal (request specification with fair scheduling).
C15_PendingThenTerminal ==
    /\ [](\A r \in Reqs :
            /\ pc[r] = "start" => RecordPending(r)
            /\ Accepted(r) => (RecordPending(r) \/ RecordTerminal(r)))
    /\ \A r \in Reqs : (pc[r] = "start") ~> RecordTerminal(r)

C15_Witness ==
    \E r \in Reqs :
        /\ bg[r].state = "done"
        /\ RecordTerminal(r)
        /\ response[r].status = 202

\* the background unit of r is running
Running(r) == bg[r].state \in {"running", "updating"}

\* a ceiling below the number of concurrent requests
Ceiling == MaxReqs - 1

\* C16: the number of background units running at the same time never exceeds
\* the ceiling.
C16_BoundedBackgroundUnits ==
    Cardinality({r \in Reqs : Running(r)}) <= Ceiling

\* C17: a ParsedTask that parse returns has a non-empty output_file, so no
\* dispatch is made with an empty one (executor specification).
C17_OutputFileNonEmpty ==
    /\ (p_parse # None /\ ~p_parse[1].raised) =>
          p_parse[1].parsed.output_file # <<>>
    /\ (p_parse # None /\ p_resp.fault = "none"
            /\ p_resp.arguments.output_file \in {None, Some(<<>>)}) =>
          p_parse[1].raised

\* C18: log extraction and markdown indexing are invoked with the containing
\* directory of the resolved path and every other operation with the resolved
\* path itself; with no input file the default is resolved and then reduced
\* ("/data/logs" and "/data/docs" to "/data"), and no dispatch fails for lack
\* of an input path (executor specification).
C18_DirectoryReduction ==
    \A i \in 1..Len(p_runs) :
        LET parsed == p_parse[1].parsed
            run == p_runs[i]
        IN /\ run.call # NoCall =>
                 run.call[1].path =
                     IF parsed.operation \in
                            {"extract_recent_logs", "create_markdown_index"}
                     THEN dirname(run.resolved[1])
                     ELSE run.resolved[1]
           /\ (parsed.input_files = <<>>
                   /\ parsed.operation \in
                          {"extract_recent_logs", "create_markdown_index"}) =>
                 /\ run.call # NoCall
                 /\ run.call[1].path = <<"/", "data">>
           /\ (parsed.input_files = <<>>
                   /\ parsed.operation \in DOMAIN handler_map) =>
                 run.exc # Exc("ValueError", "No valid input path found")
           /\ (parsed.input_files = << <<"logs", "/", "app.log">> >>
                   /\ parsed.operation = "extract_recent_logs") =>
                 run.call[1].path = <<"logs">>

C18_Witness ==
    /\ Len(p_runs) >= 1
    /\ p_parse[1].parsed.operation = "create_markdown_index"
    /\ p_parse[1].parsed.input_files = <<>>
    /\ p_runs[1].call # NoCall
    /\ p_runs[1].call[1].path = <<"/", "data">>

\* the step changes the record of id only if it is a step of the background
\* unit that owns id, and then leaves its output_path alone
OwnerStep(id) ==
    \E r \in Reqs :
        /\ task_id[r] = Some(id)
        /\ Running(r)
        /\ bg'[r].state # bg[r].state
        /\ tasks'[id].output_path = tasks[id].output_path

C20_RecordNamesHandlerOutput ==
    \A r \in Reqs :
        Accepted(r) =>
            /\ SyncInvoked(r) =>
                  executed[r].call[1].output_file =
                      tasks[task_id[r][1]].output_path
            /\ bg[r].call # NoCall =>
                  bg[r].call[1].output_file = tasks[task_id[r][1]].output_path

=============================================================================
